---- MODULE Spec2Model ----
(***************************************************************************)
(* Model of src/python/voice_client.py: the VoiceClient session            *)
(* controller (connect / disconnect), the data-channel event router        *)
(* (_handle_message, _handle_local_function, send_function_result), the    *)
(* playback tasks started by on_track with the loop of _play_audio_track,  *)
(* and the connect / disconnect sequence of main().                        *)
(*                                                                         *)
(* Python values are tagged records.  A Python str is one of                *)
(*   Plain(s)     : a text that is not a JSON document (identifiers, junk) *)
(*   json_dumps(v): the JSON document that encodes the value v             *)
(*   DeepText(c)  : brackets nested deeper than the decoder can recurse    *)
(*   DigitsText   : a JSON integer of more digits than int() converts      *)
(* so json.loads fails on the first, decodes the second and raises errors  *)
(* other than JSONDecodeError on the last two.                             *)
(***************************************************************************)
EXTENDS Integers, Sequences, FiniteSets, TLC

\* ------------------------------------------------------------------ bounds
MaxConnects == 2
MaxDisconnects == 2
MaxTracks == 2
MaxDelivered == 1
MaxFrames == 2

\* ------------------------------------------------- Python / JSON values
Plain(s) == [txt |-> "plain", raw |-> s]
JNull == [t |-> "null"]
JTrue == [t |-> "bool", b |-> TRUE]
JNum(n) == [t |-> "num", n |-> n]
JStr(s) == [t |-> "str", s |-> s]
JArr(a) == [t |-> "arr", a |-> a]
JObj(o) == [t |-> "obj", o |-> o]
Lit(s) == JStr(Plain(s))
NoFields == [k \in {} |-> JNull]
EmptyDict == JObj(NoFields)

\* "[" * 100000, followed by "]" * 100000 when closed (then a JSON document)
DeepText(closed) == [txt |-> "deep", closed |-> closed]
\* "1" * 5000: a JSON document, an integer beyond the int digit limit
DigitsText == [txt |-> "digits"]
\* The bytes of a binary message that are not UTF-8 (json.loads takes bytes)
UndecodableBytes == [txt |-> "bytes"]

\* json.dumps(v): the JSON document encoding v
json_dumps(v) == [txt |-> "json", val |-> v]
Enc(v) == JStr(json_dumps(v))

\* json.loads(x): TypeError unless x is a str (or bytes), UnicodeDecodeError
\* on bytes that are not UTF-8, RecursionError on brackets nested too deep
\* (document or not), ValueError on an integer of too many digits,
\* JSONDecodeError on any other text that is not a JSON document, else the
\* encoded value
json_loads(x) ==
    IF x.t # "str" THEN [exc |-> "TypeError"]
    ELSE IF x.s.txt = "bytes" THEN [exc |-> "UnicodeDecodeError"]
    ELSE IF x.s.txt = "deep" THEN [exc |-> "RecursionError"]
    ELSE IF x.s.txt = "digits" THEN [exc |-> "ValueError"]
    ELSE IF x.s.txt # "json" THEN [exc |-> "JSONDecodeError"]
    ELSE [exc |-> "none", val |-> x.s.val]

\* d.get(key, default): AttributeError when d is not a dict
HasGet(d) == d.t = "obj"
Get(d, key, default) == IF key \in DOMAIN d.o THEN d.o[key] ELSE default

\* --------------------------------------------------------- event router
NoResult == [exc |-> "none", result |-> JNull]

\* VoiceClient._handle_local_function: result None is JNull
LocalNames == {"set_device_volume", "adjust_device_volume", "quiet_device", "stop_audio"}

_handle_local_function(name, args) ==
    IF name = Lit("set_device_volume") THEN
        IF ~HasGet(args) THEN [exc |-> "AttributeError", result |-> JNull]
        ELSE [exc |-> "none",
              result |-> JObj([success |-> JTrue,
                               volume |-> Get(args, "volume_level", JNum(50))])]
    ELSE IF name = Lit("adjust_device_volume") THEN
        IF ~HasGet(args) THEN [exc |-> "AttributeError", result |-> JNull]
        ELSE [exc |-> "none",
              result |-> JObj([success |-> JTrue,
                               action |-> Get(args, "action", Lit("increase"))])]
    ELSE IF name = Lit("quiet_device") THEN
        [exc |-> "none", result |-> JObj([success |-> JTrue, volume |-> JNum(0)])]
    ELSE IF name = Lit("stop_audio") THEN
        [exc |-> "none",
         result |-> JObj([success |-> JTrue, message |-> Lit("Audio stopped")])]
    ELSE NoResult

\* The two messages send_function_result writes
FunctionOutputMsg(call_id, result) ==
    json_dumps(JObj([type |-> Lit("conversation.item.create"),
                     item |-> JObj([type |-> Lit("function_call_output"),
                                    call_id |-> call_id,
                                    output |-> Enc(result)])]))
ResponseCreateMsg == json_dumps(JObj([type |-> Lit("response.create")]))

\* ChannelReady, were send_function_result to write in any state
ChannelReadyAlways(ready) == TRUE
\* VoiceClient.send_function_result: the texts written on the channel.
\* ready is the readyState of self.data_channel, "none" when it is None.
ChannelReady(ready) == ready = "open"
send_function_result(ready, call_id, result) ==
    IF ~ChannelReady(ready) THEN << >>
    ELSE << FunctionOutputMsg(call_id, result), ResponseCreateMsg >>

\* Effect of one handler run: exception that escapes ("none" if it returns),
\* callback invocations in order, texts written on self.data_channel in order
Effect(exc, calls, sent) == [exc |-> exc, calls |-> calls, sent |-> sent]
NoEffect == Effect("none", << >>, << >>)

\* except json.JSONDecodeError around json.loads(args_str)
ArgsCaught(exc) == exc = "JSONDecodeError"

\* elif self.on_function_call
ForwardToCallback(cbs) == "on_function_call" \in cbs

\* The function-call branch of _handle_message (lines 293-311)
HandleFunctionCall(item, ready, cbs) ==
    LET name == Get(item, "name", Lit(""))
        args_str == Get(item, "arguments", Enc(EmptyDict))
        call_id == Get(item, "call_id", Lit(""))
        parsed == json_loads(args_str)
    IN  IF parsed.exc # "none" /\ ~ArgsCaught(parsed.exc)
        THEN Effect(parsed.exc, << >>, << >>)
        ELSE LET args == IF parsed.exc = "none" THEN parsed.val ELSE EmptyDict
                 local == _handle_local_function(name, args)
             IN  IF local.exc # "none" THEN Effect(local.exc, << >>, << >>)
                 ELSE IF local.result # JNull
                 THEN Effect("none", << >>,
                             send_function_result(ready, call_id, local.result))
                 ELSE IF ForwardToCallback(cbs)
                 THEN Effect("none",
                             << [cb |-> "on_function_call", name |-> name,
                                 args |-> args, call_id |-> call_id] >>,
                             << >>)
                 ELSE NoEffect

\* VoiceClient._handle_message(message)
_handle_message(message, ready, cbs) ==
    IF ~HasGet(message) THEN Effect("AttributeError", << >>, << >>)
    ELSE LET msg_type == Get(message, "type", Lit("")) IN
      IF msg_type = Lit("conversation.item.input_audio_transcription.completed")
      THEN IF "on_transcript" \in cbs
           THEN Effect("none", << [cb |-> "on_transcript",
                                   text |-> Get(message, "transcript", Lit(""))] >>, << >>)
           ELSE NoEffect
      ELSE IF msg_type = Lit("response.audio_transcript.delta")
      THEN NoEffect
      ELSE IF msg_type = Lit("response.audio_transcript.done")
      THEN IF "on_assistant_message" \in cbs
           THEN Effect("none", << [cb |-> "on_assistant_message",
                                   text |-> Get(message, "transcript", Lit(""))] >>, << >>)
           ELSE NoEffect
      ELSE IF msg_type = Lit("response.output_item.done")
      THEN LET item == Get(message, "item", EmptyDict) IN
           IF ~HasGet(item) THEN Effect("AttributeError", << >>, << >>)
           ELSE IF Get(item, "type", JNull) = Lit("function_call")
           THEN HandleFunctionCall(item, ready, cbs)
           ELSE NoEffect
      ELSE NoEffect

\* except json.JSONDecodeError in on_message
MessageCaught(exc) == exc = "JSONDecodeError"

\* connect.on_message(message): the data channel's 'message' handler
on_message(text, ready, cbs) ==
    LET parsed == json_loads(JStr(text)) IN
    IF parsed.exc # "none"
    THEN IF MessageCaught(parsed.exc) THEN NoEffect
         ELSE Effect(parsed.exc, << >>, << >>)
    ELSE _handle_message(parsed.val, ready, cbs)

\* ------------------------------------------------ messages the peer sends
NameFields == {NoFields} \cup
    {[name |-> Lit(n)] : n \in LocalNames \cup {"get_weather"}}
ArgFields == {NoFields,
              [arguments |-> Enc(EmptyDict)],
              [arguments |-> Enc(JObj([volume_level |-> JNum(30), action |-> Lit("decrease")]))],
              [arguments |-> Lit("oops")],
              [arguments |-> Enc(JArr(<<JNum(1)>>))],
              [arguments |-> JStr(DeepText(FALSE))],
              [arguments |-> JStr(DigitsText)],
              [arguments |-> JNum(5)]}
FunctionCallItems ==
    {[type |-> Lit("function_call"), call_id |-> Lit("call_1")] @@ nf @@ af :
        nf \in NameFields, af \in ArgFields}
FunctionCallEvents ==
    {JObj([type |-> Lit("response.output_item.done"), item |-> JObj(i)]) :
        i \in FunctionCallItems}
TranscriptEvents ==
    {JObj([type |-> Lit("conversation.item.input_audio_transcription.completed"),
           transcript |-> Lit("hello")]),
     JObj([type |-> Lit("response.audio_transcript.delta"), delta |-> Lit("Hi")]),
     JObj([type |-> Lit("response.audio_transcript.done"), transcript |-> Lit("Hi there")])}
OtherEvents ==
    {EmptyDict,
     JObj([type |-> Lit("session.created")]),
     JObj([type |-> JNum(7)]),
     JObj([type |-> Lit("response.output_item.done")]),
     JObj([type |-> Lit("response.output_item.done"),
           item |-> JObj([type |-> Lit("message")])]),
     JObj([type |-> Lit("response.output_item.done"), item |-> EmptyDict]),
     JObj([type |-> Lit("response.output_item.done"), item |-> JNull]),
     JObj([type |-> Lit("response.output_item.done"), item |-> Lit("function_call")])}
NonObjectDocs == {JArr(<<JNum(1)>>), JNum(5), Lit("hello"), JNull}
Events == FunctionCallEvents \cup TranscriptEvents \cup OtherEvents
Messages == {json_dumps(e) : e \in Events \cup NonObjectDocs}
                \cup {Plain("not json"), Plain(""), DeepText(FALSE), DeepText(TRUE),
                      DigitsText, UndecodableBytes}


\* --------------------------------------------------------- device selection
\* Python str values inspected with startswith are sequences of characters
PyNone == [set |-> FALSE]
PyStr(chars) == [set |-> TRUE, chars |-> chars]
Truthy(v) == v.set /\ Len(v.chars) > 0
startswith(v, prefix) ==
    Len(v.chars) >= Len(prefix) /\ SubSeq(v.chars, 1, Len(prefix)) = prefix

Devices == {PyNone,
            PyStr(<< >>),
            PyStr(<<":", "1">>),
            PyStr(<<"a", "u", "d", "i", "o", "=", "M", "i", "c">>),
            PyStr(<<"h", "w", ":", "0">>)}

\* InferFormat, were every explicit specifier opened as a PulseAudio source
InferFormatPulse(device) == "pulse"
\* lines 107-112: format inferred from the syntax of the explicit specifier
InferFormat(device) ==
    IF startswith(device, <<":">>) THEN "avfoundation"
    ELSE IF startswith(device, <<"a", "u", "d", "i", "o", "=">>) THEN "dshow"
    ELSE "pulse"

Default == <<"d", "e", "f", "a", "u", "l", "t">>
Candidate(chars, fmt) == [device |-> PyStr(chars), fmt |-> fmt]
\* lines 124-131
audio_formats ==
    << Candidate(Default, "pulse"),
       Candidate(Default, "alsa"),
       Candidate(<<":", "0">>, "avfoundation"),
       Candidate(<<":", "1">>, "avfoundation"),
       Candidate(<<":">> \o Default, "avfoundation"),
       Candidate(<<"a", "u", "d", "i", "o", "=">> \o Default, "dshow") >>

\* What opening one candidate does: MediaPlayer raises, or it yields a
\* player without an audio track, or a player with one
Outcomes == {"raise", "noaudio", "ok"}
\* Environments: candidate k is the first that opens (0: none does) and the
\* ones before it fail the way f says
EnvOf(k, f) == [i \in 1..Len(audio_formats) |-> IF k = 0 \/ i < k THEN f ELSE "ok"]
Environments == {EnvOf(k, f) : k \in 0..Len(audio_formats), f \in {"raise", "noaudio"}}

\* Index of the candidate the loop of lines 133-143 breaks on, 0 if none
FirstOk(env) ==
    IF \E i \in DOMAIN env : env[i] = "ok"
    THEN CHOOSE i \in DOMAIN env :
            env[i] = "ok" /\ \A j \in 1..(i-1) : env[j] # "ok"
    ELSE 0

\* lines 102-143: the open attempts made, whether a track was added, and
\* the error raised inside the block ("none" when it falls through)
AttachAudio(device, env) ==
    IF Truthy(device)
    THEN [attempts |-> << [device |-> device, fmt |-> InferFormat(device)] >>,
          added |-> env[1] = "ok",
          exc |-> IF env[1] = "raise" THEN "DeviceFailed" ELSE "none"]
    ELSE LET k == FirstOk(env) IN
         [attempts |-> SubSeq(audio_formats, 1, IF k = 0 THEN Len(audio_formats) ELSE k),
          added |-> k # 0,
          exc |-> "none"]

\* MicrophoneMissing, were the check of line 145 left out
MicrophoneNeverMissing(added) == FALSE
\* line 145: if not audio_added: raise
MicrophoneMissing(added) == ~added

\* ------------------------------------------------------- playback frames
\* numpy arrays: a 2-D array of shape (channels, samples) holds rows, a 1-D
\* array holds samples.  Samples are integers; those of a float array count
\* units of 1/FloatUnit, so a float array holds multiples of 1/FloatUnit.
FloatUnit == 2
Arr2(dtype, rows) == [nd |-> 2, dtype |-> dtype, rows |-> rows]
Arr1(dtype, samples) == [nd |-> 1, dtype |-> dtype, samples |-> samples]
NoArr == [nd |-> 0]

\* ndarray.flatten() of a 2-D array: the rows one after the other
RECURSIVE flatten(_)
flatten(rows) == IF rows = << >> THEN << >> ELSE Head(rows) \o flatten(Tail(rows))

\* lines 231-238: a 2-D array is reduced to one dimension
Collapse(a) ==
    IF a.nd = 2
    THEN IF Len(a.rows) = 1 THEN Arr1(a.dtype, a.rows[1])
         ELSE IF Len(a.rows) = 2 THEN Arr1(a.dtype, a.rows[1])
         ELSE Arr1(a.dtype, flatten(a.rows))
    ELSE a

\* ndarray.astype(np.int16) of an integer: the low 16 bits, two's complement
WrapInt16(x) == ((x + 32768) % 65536) - 32768
\* and of a float n/d: the fraction is dropped (towards zero) first
Trunc(n, d) == IF n >= 0 THEN n \div d ELSE -((-n) \div d)
IsFloat(dtype) == dtype \in {"float32", "float64"}

\* lines 241-245: the samples are brought to int16
EnsureInt16(a) ==
    IF a.dtype = "int16" THEN a
    ELSE IF IsFloat(a.dtype)
    THEN Arr1("int16", [i \in DOMAIN a.samples |->
                            WrapInt16(Trunc(a.samples[i] * 32767, FloatUnit))])
    ELSE Arr1("int16", [i \in DOMAIN a.samples |-> WrapInt16(a.samples[i])])

\* lines 224-247: the buffer stream.write() is given for a frame
PlaybackBuffer(frame) == EnsureInt16(Collapse(frame))

\* Frames the track delivers (frame.to_ndarray())
Rows == << <<1, -2>>, <<3, 4>>, <<5, 6>> >>
Frames ==
    {Arr2("int16", SubSeq(Rows, 1, k)) : k \in 1..3}
    \cup {Arr1("int16", <<7, 8>>),
          Arr2("float32", << <<1, -2>>, <<0, 2>> >>),
          Arr2("int32", << <<40000, -1>> >>)}

\* Names of exception types, as the characters `in` searches
Contains(s, sub) ==
    \E i \in 1..(Len(s) - Len(sub) + 1) : SubSeq(s, i, i + Len(sub) - 1) = sub
MediaStreamError == <<"M", "e", "d", "i", "a", "S", "t", "r", "e", "a", "m", "E", "r", "r", "o", "r">>
ConnectionError == <<"C", "o", "n", "n", "e", "c", "t", "i", "o", "n", "E", "r", "r", "o", "r">>
ConnectionResetError == <<"C", "o", "n", "n", "e", "c", "t", "i", "o", "n", "R", "e", "s", "e", "t", "E", "r", "r", "o", "r">>
ValueError == <<"V", "a", "l", "u", "e", "E", "r", "r", "o", "r">>
PortAudioError == <<"P", "o", "r", "t", "A", "u", "d", "i", "o", "E", "r", "r", "o", "r">>
NoException == << >>

\* line 250
StreamEnded(error_type) ==
    Contains(error_type, MediaStreamError) \/ Contains(error_type, ConnectionError)

\* One iteration of the loop of lines 218-254: what track.recv(),
\* frame.to_ndarray() and stream.write() do in it
Iteration(kind, error, frame) == [kind |-> kind, error |-> error, frame |-> frame]
NoIteration == Iteration("none", NoException, NoArr)
Iterations ==
    {Iteration("recv_raises", e, NoArr) :
        e \in {MediaStreamError, ConnectionError, ConnectionResetError, ValueError}}
    \cup {Iteration("to_ndarray_raises", ValueError, NoArr)}
    \cup {Iteration("write_raises", PortAudioError, Arr1("int16", <<7, 8>>))}
    \cup {Iteration("plays", NoException, f) : f \in Frames}

\* The except clause of lines 248-254: does the iteration leave the loop
LoopBreaks(it) == it.kind # "plays" /\ StreamEnded(it.error)
\* line 221: frame_count += 1 once recv() has returned
FrameReceived(it) == it.kind # "recv_raises"
\* line 247: the buffer written, NoArr when the iteration raised before
Written(it) == IF it.kind = "plays" THEN PlaybackBuffer(it.frame) ELSE NoArr

\* ------------------------------------------------------------- signaling
\* What the server answers to a POST: a status and a body text.  On 200 the
\* body is a JSON object, a text that is not JSON, JSON that is no object
\* (an array, null), or a text the decoder cannot recurse through
NoBody == Plain("")
Responses == {[status |-> 200, body |-> json_dumps(JObj([id |-> Lit("sess_1")]))],
              [status |-> 200, body |-> Plain("ok")],
              [status |-> 200, body |-> json_dumps(JArr(<< >>))],
              [status |-> 200, body |-> json_dumps(JNull)],
              [status |-> 200, body |-> DeepText(FALSE)],
              [status |-> 201, body |-> Plain("created")],
              [status |-> 401, body |-> Plain("unauthorized")]}
\* await resp.json(), line 70
resp_json(body) == json_loads(JStr(body))
\* self.session = ... : None when the body is null, else the object that
\* this connect() (number n) has parsed
Assigned(val, n) == IF val = JNull THEN 0 ELSE n
\* SessionOk, were session creation to accept 201 as the exchange does
SessionOkLikeSdp(status) == status \in {200, 201}
\* line 67
SessionOk(status) == status = 200
\* SdpOk, were the exchange to accept only 200 as session creation does
SdpOkLikeSession(status) == status = 200
\* line 190
SdpOk(status) == status \in {200, 201}
\* IceReady, were the loop left as soon as gathering has started
IceReadyOnceStarted(state) == state # "new"
\* line 173: the loop is left when the gathering state is 'complete'
IceReady(state) == state = "complete"

\* ------------------------------------------------------------------ state
VARIABLES
    audio_device,        \* self.audio_device
    playback_available,  \* AUDIO_PLAYBACK_AVAILABLE
    session,             \* self.session: 0 is None, else the connect() that set it
    pc,                  \* self.pc: 0 is None, else an index of conns
    data_channel,        \* self.data_channel: 0 is None, else an index of conns
    audio_player_task,   \* -1: attribute not set, 0: None, else an index of tasks
    conns,               \* peer connections created, each with its data channel
    tasks,               \* playback tasks created by on_track, with their locals
    cphase,              \* where the connect() coroutine is
    cerror,              \* the exception connect() raised
    run,                 \* what the current connect() has done so far
    dphase,              \* where the disconnect() coroutine is
    calls,               \* counts of calls: connect, disconnect, cancel, close
    last                 \* the runs of on_message so far: text, callbacks, effect

vars == <<audio_device, playback_available, session, pc, data_channel,
          audio_player_task, conns, tasks, cphase, cerror, run, dphase,
          calls, last>>

Callbacks == {"on_transcript", "on_assistant_message", "on_function_call"}

NoError == [kind |-> "none"]
\* What the running connect() has done: the peer connections that existed
\* when it was called, the session response it got, the device attempts of
\* lines 102-143 (locals, gone once the block is left), its offers and
\* description exchanges
FreshRun(base) == [base |-> base, status |-> 0, body |-> NoBody, attempts |-> << >>,
                   added |-> FALSE, offers |-> 0, exchanges |-> 0, sdpStatus |-> 0,
                   sdpBody |-> NoBody]

\* The awaits connect() can be suspended in
ConnectBusy == cphase \in {"session_post", "session_body", "session_exit",
                           "create_offer", "set_local", "ice_wait",
                           "sdp_post", "sdp_body", "set_remote"}
DisconnectBusy == dphase \in {"await_task", "pc_close"}
CallerIdle == ~ConnectBusy /\ ~DisconnectBusy

\* VoiceClient.__init__
Init ==
    /\ audio_device \in Devices
    /\ playback_available \in BOOLEAN
    /\ session = 0
    /\ pc = 0
    /\ data_channel = 0
    /\ audio_player_task = -1
    /\ conns = << >>
    /\ tasks = << >>
    /\ cphase = "idle"
    /\ cerror = NoError
    /\ run = FreshRun(0)
    /\ dphase = "idle"
    /\ calls = [connect |-> 0, disconnect |-> 0, cancel |-> 0,
                dc_close |-> 0, pc_close |-> 0, track |-> 0,
                closedBefore |-> FALSE]
    /\ last = << >>

NewConn == [pc |-> "open", ice |-> "new", dc |-> "connecting",
            local |-> FALSE, remote |-> FALSE, mic |-> FALSE, on_track |-> FALSE]

\* connect(), lines 52-66: the call, up to the await of the session POST
ConnectCall ==
    /\ CallerIdle
    /\ calls.connect < MaxConnects
    /\ calls' = [calls EXCEPT !.connect = @ + 1]
    /\ cphase' = "session_post"
    /\ cerror' = NoError
    /\ run' = FreshRun(Len(conns))
    /\ dphase' = "idle"
    /\ UNCHANGED <<audio_device, playback_available, session, pc, data_channel,
                   audio_player_task, conns, tasks, last>>

\* connect(), lines 58-68: the session response arrives; connect() goes on
\* to read its body, resp.text() on a failure status and resp.json() on 200
SessionResponse(resp) ==
    /\ cphase = "session_post"
    /\ cphase' = "session_body"
    /\ run' = [run EXCEPT !.status = resp.status, !.body = resp.body]
    /\ UNCHANGED <<audio_device, playback_available, session, pc, data_channel,
                   audio_player_task, conns, tasks, cerror, dphase, calls, last>>

\* connect(), lines 67-70: the body is read.  A status other than 200 raises
\* with the status and the text; on 200 resp.json() raises when the body is
\* not JSON, else self.session is assigned and the async with blocks exit
SessionBodyRead ==
    /\ cphase = "session_body"
    /\ IF ~SessionOk(run.status)
       THEN /\ cphase' = "raised"
            /\ cerror' = [kind |-> "SessionFailed", status |-> run.status,
                          body |-> run.body]
            /\ UNCHANGED session
       ELSE IF resp_json(run.body).exc # "none"
       THEN /\ cphase' = "raised"
            /\ cerror' = [kind |-> resp_json(run.body).exc]
            /\ UNCHANGED session
       ELSE /\ cphase' = "session_exit"
            /\ session' = Assigned(resp_json(run.body).val, calls.connect)
            /\ UNCHANGED cerror
    /\ UNCHANGED <<audio_device, playback_available, pc, data_channel,
                   audio_player_task, conns, tasks, run, dphase, calls, last>>

\* connect(), lines 57-169: the async with blocks are left; self.session.get
\* raises when the session is not a mapping, else the peer connection, the
\* data channel and the microphone track are set up and the offer is awaited
SessionSetUp(env) ==
    /\ cphase = "session_exit"
    /\ IF ~HasGet(resp_json(run.body).val)
       THEN /\ cphase' = "raised"
            /\ cerror' = [kind |-> "AttributeError"]
            /\ UNCHANGED <<pc, data_channel, audio_player_task, conns, run>>
       ELSE LET att == AttachAudio(audio_device, env)
                failed == att.exc # "none" \/ MicrophoneMissing(att.added)
                n == Len(conns) + 1
            IN  /\ pc' = n
                /\ data_channel' = n
                /\ conns' = Append(conns, [NewConn EXCEPT !.mic = att.added,
                                                          !.on_track = ~failed])
                /\ run' = [run EXCEPT !.attempts = att.attempts, !.added = att.added]
                /\ IF att.exc # "none"
                   THEN /\ cphase' = "raised"
                        /\ cerror' = [kind |-> "DeviceFailed", device |-> audio_device]
                        /\ UNCHANGED audio_player_task
                   ELSE IF MicrophoneMissing(att.added)
                   THEN /\ cphase' = "raised"
                        /\ cerror' = [kind |-> "NoMicrophone"]
                        /\ UNCHANGED audio_player_task
                   ELSE /\ cphase' = "create_offer"
                        /\ audio_player_task' = 0
                        /\ UNCHANGED cerror
    /\ UNCHANGED <<audio_device, playback_available, session, tasks, dphase,
                   calls, last>>

\* connect(), lines 169-170: createOffer() returns, setLocalDescription awaited
OfferCreated ==
    /\ cphase = "create_offer"
    /\ cphase' = "set_local"
    /\ run' = [run EXCEPT !.offers = @ + 1, !.attempts = << >>]
    /\ UNCHANGED <<audio_device, playback_available, session, pc, data_channel,
                   audio_player_task, conns, tasks, cerror, dphase, calls, last>>

\* connect(), lines 170-180: setLocalDescription() returns and line 173
\* tests the gathering state before any sleep: when it is 'complete' already
\* the description exchange is posted at once, else connect() sleeps
LocalDescriptionSet ==
    /\ cphase = "set_local"
    /\ conns' = [conns EXCEPT ![pc].local = TRUE]
    /\ IF IceReady(conns[pc].ice)
       THEN /\ cphase' = "sdp_post"
            /\ run' = [run EXCEPT !.exchanges = @ + 1]
       ELSE /\ cphase' = "ice_wait"
            /\ UNCHANGED run
    /\ UNCHANGED <<audio_device, playback_available, session, pc, data_channel,
                   audio_player_task, tasks, cerror, dphase, calls, last>>

\* The peer connection gathers ICE candidates, at any time while it is open:
\* during the awaits of lines 169-170 as during the sleeps of line 174
IceProgress(c) ==
    /\ conns[c].pc = "open"
    /\ conns[c].ice # "complete"
    /\ conns' = [conns EXCEPT ![c].ice = IF @ = "new" THEN "gathering" ELSE "complete"]
    /\ UNCHANGED <<audio_device, playback_available, session, pc, data_channel,
                   audio_player_task, tasks, cphase, cerror, run, dphase, calls, last>>

\* connect(), lines 173-188: a sleep returns, the poll finds gathering
\* complete and the description exchange is posted
IceWaitOver ==
    /\ cphase = "ice_wait"
    /\ IceReady(conns[pc].ice)
    /\ cphase' = "sdp_post"
    /\ run' = [run EXCEPT !.exchanges = @ + 1]
    /\ UNCHANGED <<audio_device, playback_available, session, pc, data_channel,
                   audio_player_task, conns, tasks, cerror, dphase, calls, last>>

\* connect(), lines 180-193: the exchange response arrives; connect() goes
\* on to read its body with resp.text(), on a failure status as on success
SdpResponse(resp) ==
    /\ cphase = "sdp_post"
    /\ cphase' = "sdp_body"
    /\ run' = [run EXCEPT !.sdpStatus = resp.status, !.sdpBody = resp.body]
    /\ UNCHANGED <<audio_device, playback_available, session, pc, data_channel,
                   audio_player_task, conns, tasks, cerror, dphase, calls, last>>

\* connect(), lines 190-197: the body is read.  A status outside (200, 201)
\* raises with the status and the text; else the async with blocks exit and
\* setRemoteDescription() is awaited
SdpBodyRead ==
    /\ cphase = "sdp_body"
    /\ IF ~SdpOk(run.sdpStatus)
       THEN /\ cphase' = "raised"
            /\ cerror' = [kind |-> "SdpFailed", status |-> run.sdpStatus,
                          body |-> run.sdpBody]
       ELSE /\ cphase' = "set_remote"
            /\ UNCHANGED cerror
    /\ UNCHANGED <<audio_device, playback_available, session, pc, data_channel,
                   audio_player_task, conns, tasks, run, dphase, calls, last>>

\* connect(), lines 197-199: setRemoteDescription() returns
RemoteDescriptionSet ==
    /\ cphase = "set_remote"
    /\ cphase' = "returned"
    /\ conns' = [conns EXCEPT ![pc].remote = TRUE]
    /\ UNCHANGED <<audio_device, playback_available, session, pc, data_channel,
                   audio_player_task, tasks, cerror, run, dphase, calls, last>>

\* connect(), lines 58 and 180: the POST itself raises (the server cannot be
\* reached): aiohttp's ClientConnectorError, an OSError
PostFails ==
    /\ cphase \in {"session_post", "sdp_post"}
    /\ cphase' = "raised"
    /\ cerror' = [kind |-> "OSError"]
    /\ UNCHANGED <<audio_device, playback_available, session, pc, data_channel,
                   audio_player_task, conns, tasks, run, dphase, calls, last>>

\* connect() is cancelled from outside while suspended in an await: of a
\* POST, of the read of a response body, of the exit of the async with
\* blocks, of the offer, of a description, or of the sleep of line 174
ConnectCancelled ==
    /\ ConnectBusy
    /\ cphase' = "cancelled"
    /\ cerror' = [kind |-> "Cancelled"]
    /\ UNCHANGED <<audio_device, playback_available, session, pc, data_channel,
                   audio_player_task, conns, tasks, run, dphase, calls, last>>

\* ------------------------------------------------------ playback and events
TaskDone(t) == tasks[t].state \in {"finished", "cancelled"}

\* asyncio.create_task(self._play_audio_track(track)): the task, the sink it
\* has opened (stream), frame_count, the loop iterations it has made, and the
\* last of them with the buffer it wrote
NewTask(c) == [conn |-> c, state |-> "created", cancel |-> FALSE, sink |-> "none",
               frame_count |-> 0, iterations |-> 0, step |-> NoIteration,
               written |-> NoArr]

\* connect.on_track(track), lines 159-166: the peer connection announces an
\* inbound track while it applies the remote description
on_track(kind) ==
    /\ cphase = "set_remote"
    /\ conns[pc].on_track
    /\ calls.track < MaxTracks
    /\ IF kind = "audio" /\ playback_available
       THEN /\ tasks' = Append(tasks, NewTask(pc))
            /\ audio_player_task' = Len(tasks) + 1
       ELSE UNCHANGED <<tasks, audio_player_task>>
    /\ calls' = [calls EXCEPT !.track = @ + 1]
    /\ UNCHANGED <<audio_device, playback_available, session, pc, data_channel,
                   conns, cphase, cerror, run, dphase, last>>

\* lines 205-214: query_devices() or OutputStream() raises and no sink was
\* opened, or start() raises on the opened sink, or the sink is started
StartOutcomes == {"open_raises", "start_raises", "started"}

\* _play_audio_track, lines 203-220: the task starts, opens the sink and
\* awaits the first frame; a failure is caught at line 259, which returns
PlaybackStart(t, outcome) ==
    /\ tasks[t].state = "created"
    /\ ~tasks[t].cancel
    /\ tasks' = [tasks EXCEPT ![t] =
                    IF outcome = "started"
                    THEN [@ EXCEPT !.state = "waiting", !.sink = "open"]
                    ELSE IF outcome = "start_raises"
                    THEN [@ EXCEPT !.state = "finished", !.sink = "open"]
                    ELSE [@ EXCEPT !.state = "finished"]]
    /\ UNCHANGED <<audio_device, playback_available, session, pc, data_channel,
                   audio_player_task, conns, cphase, cerror, run, dphase, calls, last>>

\* _play_audio_track, lines 218-258: one iteration of the loop; when it
\* breaks, the sink is stopped and closed and the coroutine returns
PlaybackIteration(t, it) ==
    /\ tasks[t].state = "waiting"
    /\ ~tasks[t].cancel
    /\ tasks[t].iterations < MaxFrames
    /\ tasks' = [tasks EXCEPT ![t] =
                    [@ EXCEPT !.iterations = @ + 1,
                              !.frame_count = IF FrameReceived(it) THEN @ + 1 ELSE @,
                              !.step = it,
                              !.written = Written(it),
                              !.state = IF LoopBreaks(it) THEN "finished" ELSE "waiting",
                              !.sink = IF LoopBreaks(it) THEN "closed" ELSE @]]
    /\ UNCHANGED <<audio_device, playback_available, session, pc, data_channel,
                   audio_player_task, conns, cphase, cerror, run, dphase, calls, last>>

\* The track ends: recv() raises MediaStreamError
PlaybackTrackEnded(t) ==
    PlaybackIteration(t, Iteration("recv_raises", MediaStreamError, NoArr))

\* The task observes the cancellation: CancelledError is not an Exception, so
\* neither except clause of _play_audio_track catches it
PlaybackCancelled(t) ==
    /\ ~TaskDone(t)
    /\ tasks[t].cancel
    /\ tasks' = [tasks EXCEPT ![t].state = "cancelled"]
    /\ UNCHANGED <<audio_device, playback_available, session, pc, data_channel,
                   audio_player_task, conns, cphase, cerror, run, dphase, calls, last>>

\* The data channel of an established connection opens
DataChannelOpen(c) ==
    /\ conns[c].pc = "open"
    /\ conns[c].remote
    /\ conns[c].dc = "connecting"
    /\ conns' = [conns EXCEPT ![c].dc = "open"]
    /\ UNCHANGED <<audio_device, playback_available, session, pc, data_channel,
                   audio_player_task, tasks, cphase, cerror, run, dphase, calls, last>>

\* readyState of self.data_channel, "none" when the attribute is None
ReadyState == IF data_channel = 0 THEN "none" ELSE conns[data_channel].dc

\* A message arrives on the channel of connection c and on_message runs.
\* The callback attributes (lines 48-50) are whatever the caller has
\* assigned by then.
Deliver(c) ==
    /\ conns[c].dc \in {"open", "closing"}
    /\ Len(last) < MaxDelivered
    /\ \E text \in Messages, cbs \in SUBSET Callbacks :
          last' = Append(last, [text |-> text, cbs |-> cbs, ready |-> ReadyState,
                                effect |-> on_message(text, ReadyState, cbs)])
    /\ UNCHANGED <<audio_device, playback_available, session, pc, data_channel,
                   audio_player_task, conns, tasks, cphase, cerror, run, dphase, calls>>

\* ------------------------------------------------------------- disconnect
\* line 361: hasattr(self, 'audio_player_task'); the attribute exists once
\* line 157 has run
HasAttr(task) == task # -1
\* Reading an attribute that was never assigned raises AttributeError
ReadRaises(task) == task = -1
\* line 361: hasattr(self, 'audio_player_task') and self.audio_player_task
HasPlayerTask == audio_player_task > 0
\* HasChannel, were disconnect() to forget the data channel
HasChannelNever(ch) == FALSE
\* line 367 and line 369
HasChannel(ch) == ch # 0
HasPeer(p) == p # 0

\* RTCDataChannel.close(): no effect once closing or closed
ChannelClose(state) ==
    IF state = "open" THEN "closing"
    ELSE IF state = "connecting" THEN "closed"
    ELSE state

\* lines 367-370 up to the await of pc.close(), which returns at once on a
\* closed peer connection
CloseBoth ==
    /\ conns' = IF HasChannel(data_channel)
                THEN [conns EXCEPT ![data_channel].dc = ChannelClose(@)]
                ELSE conns
    /\ dphase' = IF HasPeer(pc) /\ conns[pc].pc = "open" THEN "pc_close" ELSE "done"

CloseCounts(c) ==
    [c EXCEPT !.dc_close = IF HasChannel(data_channel) THEN @ + 1 ELSE @,
              !.pc_close = IF HasPeer(pc) THEN @ + 1 ELSE @]

\* disconnect(), lines 359-370: the call, up to its first suspension
DisconnectCall ==
    /\ CallerIdle
    /\ calls.disconnect < MaxDisconnects
    /\ LET c1 == [calls EXCEPT !.disconnect = @ + 1,
                               !.closedBefore = (dphase = "done")]
       IN IF HasAttr(audio_player_task) /\ ReadRaises(audio_player_task)
          THEN /\ dphase' = "raised"
               /\ calls' = c1
               /\ UNCHANGED <<tasks, conns>>
          ELSE IF HasPlayerTask
          THEN /\ tasks' = [tasks EXCEPT ![audio_player_task].cancel =
                                @ \/ ~TaskDone(audio_player_task)]
               /\ IF TaskDone(audio_player_task)
                  THEN /\ CloseBoth
                       /\ calls' = CloseCounts([c1 EXCEPT !.cancel = @ + 1])
                  ELSE /\ dphase' = "await_task"
                       /\ calls' = [c1 EXCEPT !.cancel = @ + 1]
                       /\ UNCHANGED conns
          ELSE /\ CloseBoth
               /\ calls' = CloseCounts(c1)
               /\ UNCHANGED tasks
    /\ UNCHANGED <<audio_device, playback_available, session, pc, data_channel,
                   audio_player_task, cphase, cerror, run, last>>

\* disconnect(), lines 364-370: the awaited task is done
DisconnectResume ==
    /\ dphase = "await_task"
    /\ TaskDone(audio_player_task)
    /\ CloseBoth
    /\ calls' = CloseCounts(calls)
    /\ UNCHANGED <<audio_device, playback_available, session, pc, data_channel,
                   audio_player_task, tasks, cphase, cerror, run, last>>

\* disconnect(), lines 370-371: pc.close() returns; the peer connection and
\* its data channel are closed
DisconnectDone ==
    /\ dphase = "pc_close"
    /\ conns' = [conns EXCEPT ![pc].pc = "closed", ![pc].dc = "closed"]
    /\ dphase' = "done"
    /\ UNCHANGED <<audio_device, playback_available, session, pc, data_channel,
                   audio_player_task, tasks, cphase, cerror, run, calls, last>>

\* The steps of a connect() that was called, and of the peer connection it
\* waits for
ConnectSteps ==
    \/ PostFails
    \/ \E resp \in Responses : SessionResponse(resp)
    \/ SessionBodyRead
    \/ \E env \in Environments : SessionSetUp(env)
    \/ OfferCreated
    \/ LocalDescriptionSet
    \/ \E c \in DOMAIN conns : IceProgress(c)
    \/ IceWaitOver
    \/ \E resp \in Responses : SdpResponse(resp)
    \/ SdpBodyRead
    \/ RemoteDescriptionSet
    \/ ConnectCancelled

\* connect() called at any time the caller is free, and its steps
NextConnect ==
    \/ ConnectCall
    \/ ConnectSteps

\* main(), line 396: the one call of connect()
MainConnect ==
    /\ calls.connect = 0
    /\ ConnectCall

\* main(), lines 396-405: connect() has returned and the sleep of line 399 is
\* over or interrupted, or connect() has raised; whichever except clause
\* applies, the finally clause calls disconnect()
MainFinally ==
    /\ calls.connect = 1
    /\ calls.disconnect = 0
    /\ cphase \in {"returned", "raised", "cancelled"}
    /\ DisconnectCall

\* The exceptions that are not an Exception: asyncio.CancelledError (what
\* cerror calls "Cancelled"), SystemExit, GeneratorExit, KeyboardInterrupt
NotAnException == {"Cancelled", "SystemExit", "GeneratorExit", "KeyboardInterrupt"}

\* main(), lines 400-403: the except clause that takes an exception of
\* connect().  Line 400 takes KeyboardInterrupt and line 402 every
\* Exception; an interrupt reaches main() under asyncio.run() as the
\* cancellation of its task, and CancelledError is neither
ExceptClause(kind) ==
    IF kind = "KeyboardInterrupt" THEN "line 400"
    ELSE IF kind \notin NotAnException THEN "line 402"
    ELSE "none"

\* The run of main(): one connect(), the playback it starts, one disconnect()
NextMain ==
    \/ MainConnect
    \/ ConnectSteps
    \/ \E kind \in {"audio", "video"} : on_track(kind)
    \/ \E t \in DOMAIN tasks, outcome \in StartOutcomes : PlaybackStart(t, outcome)
    \/ \E t \in DOMAIN tasks : PlaybackTrackEnded(t)
    \/ \E t \in DOMAIN tasks : PlaybackCancelled(t)
    \/ MainFinally
    \/ DisconnectResume
    \/ DisconnectDone

\* The session lifecycle: connect, inbound tracks and playback, disconnect
Next ==
    \/ NextConnect
    \/ \E kind \in {"audio", "video"} : on_track(kind)
    \/ \E t \in DOMAIN tasks, outcome \in StartOutcomes : PlaybackStart(t, outcome)
    \/ \E t \in DOMAIN tasks : PlaybackTrackEnded(t)
    \/ \E t \in DOMAIN tasks : PlaybackCancelled(t)
    \/ \E c \in DOMAIN conns : DataChannelOpen(c)
    \/ DisconnectCall
    \/ DisconnectResume
    \/ DisconnectDone

\* The data channel's traffic over the life of the connection
NextRouter ==
    \/ NextConnect
    \/ \E c \in DOMAIN conns : DataChannelOpen(c)
    \/ \E c \in DOMAIN conns : Deliver(c)
    \/ DisconnectCall
    \/ DisconnectDone

InitRouter == Init /\ audio_device = PyNone /\ ~playback_available

\* The playback loops of the inbound audio tracks, frame by frame
NextPlayback ==
    \/ NextConnect
    \/ \E kind \in {"audio", "video"} : on_track(kind)
    \/ \E t \in DOMAIN tasks, outcome \in StartOutcomes : PlaybackStart(t, outcome)
    \/ \E t \in DOMAIN tasks, it \in Iterations : PlaybackIteration(t, it)

InitPlayback == Init /\ audio_device = PyNone /\ playback_available

Spec == Init /\ [][Next]_vars
SpecConnect == Init /\ [][NextConnect]_vars
SpecRouter == InitRouter /\ [][NextRouter]_vars
SpecPlayback == InitPlayback /\ [][NextPlayback]_vars
SpecMain == Init /\ [][NextMain]_vars

\* ------------------------------------------------------------------ claims
\* Reading a delivered text without the router: the event it encodes
IsDocument(text) == text.txt = "json"
IsEvent(text) == IsDocument(text) /\ text.val.t = "obj"
EventType(text) == Get(text.val, "type", Lit(""))
EventItem(text) == Get(text.val, "item", EmptyDict)
IsFunctionCallEvent(text) ==
    /\ IsEvent(text)
    /\ EventType(text) = Lit("response.output_item.done")
    /\ EventItem(text).t = "obj"
    /\ Get(EventItem(text), "type", JNull) = Lit("function_call")
ItemName(text) == Get(EventItem(text), "name", Lit(""))
HasLocalName(text) == \E n \in LocalNames : ItemName(text) = Lit(n)
DispatchedTranscriptTypes ==
    {Lit("conversation.item.input_audio_transcription.completed"),
     Lit("response.audio_transcript.delta"),
     Lit("response.audio_transcript.done")}
SentTypes(effect) == [i \in DOMAIN effect.sent |-> effect.sent[i].val.o.type]

\* C1: every function-call event with a local name is answered without the
\* on_function_call callback and with exactly two writes on the data channel,
\* the function output and then the response trigger (stated for the runs in
\* which the data channel is open, the state most favourable to the claim).
C1_LocalCallAnswered ==
    \A i \in DOMAIN last :
        (IsFunctionCallEvent(last[i].text) /\ HasLocalName(last[i].text)
            /\ last[i].ready = "open")
        => /\ last[i].effect.exc = "none"
           /\ last[i].effect.calls = << >>
           /\ SentTypes(last[i].effect) =
                << Lit("conversation.item.create"), Lit("response.create") >>

\* C2: every function-call event with a name outside the local table invokes
\* on_function_call exactly once, with the name, an argument mapping and the
\* call id, and writes nothing (stated for the runs in which the callback is
\* registered).
C2_ExternalCallForwarded ==
    \A i \in DOMAIN last :
        (IsFunctionCallEvent(last[i].text) /\ ~HasLocalName(last[i].text)
            /\ "on_function_call" \in last[i].cbs)
        => /\ last[i].effect.exc = "none"
           /\ Len(last[i].effect.calls) = 1
           /\ last[i].effect.calls[1].cb = "on_function_call"
           /\ last[i].effect.calls[1].name = ItemName(last[i].text)
           /\ last[i].effect.calls[1].call_id = Get(EventItem(last[i].text), "call_id", Lit(""))
           /\ last[i].effect.calls[1].args.t = "obj"
           /\ last[i].effect.sent = << >>

\* The connect() in progress has created a peer connection and data channel
CreatedInRun == Len(conns) > run.base

\* C3: when session creation answers with a status other than 200, connect()
\* reads the error body and fails with an error carrying that status and
\* body (it ends otherwise only if it is cancelled from outside while it
\* reads); it has assigned no session, created no peer connection or data
\* channel, and made no offer and no exchange.
C3_SessionFailureStopsConnect ==
    run.status \notin {0, 200}
    => /\ cphase \in {"session_body", "raised", "cancelled"}
       /\ cphase = "raised"
            => cerror = [kind |-> "SessionFailed", status |-> run.status,
                         body |-> run.body]
       /\ cphase = "cancelled" => cerror = [kind |-> "Cancelled"]
       /\ session # calls.connect
       /\ ~CreatedInRun
       /\ run.offers = 0
       /\ run.exchanges = 0
C3_Witness ==
    /\ cphase = "raised"
    /\ run.status = 401
    /\ cerror.kind = "SessionFailed"
    /\ calls.connect = 2
    /\ Len(conns) = 1

\* C4: a connect() that fails after it created the peer connection leaves
\* that peer connection and its data channel closed when it returns the error.
C4_FailedConnectIsClosed ==
    (cphase = "raised" /\ CreatedInRun /\ dphase = "idle")
    => conns[pc].pc = "closed" /\ conns[pc].dc = "closed"

\* C5, as claimed: disconnect() on a client that is already Closed makes no
\* further cancel and no further close, and leaves the client unchanged.
C5_Original ==
    [][(dphase = "done" /\ calls'.disconnect = calls.disconnect + 1)
        => /\ calls'.cancel = calls.cancel
           /\ calls'.dc_close = calls.dc_close
           /\ calls'.pc_close = calls.pc_close
           /\ UNCHANGED <<session, pc, data_channel, audio_player_task, conns,
                          tasks, dphase>>]_vars

\* C5, amended: disconnect() on a client that is already Closed repeats its
\* calls (cancel on the finished task, close on the data channel, close on
\* the peer connection, each where the attribute is set), and these have no
\* effect: the client stays Closed with every attribute, connection, channel
\* and task as it was.
C5_RepeatedDisconnectHasNoEffect ==
    [][(dphase = "done" /\ calls'.disconnect = calls.disconnect + 1)
        => /\ calls'.cancel = calls.cancel + (IF audio_player_task > 0 THEN 1 ELSE 0)
           /\ calls'.dc_close = calls.dc_close + (IF data_channel # 0 THEN 1 ELSE 0)
           /\ calls'.pc_close = calls.pc_close + (IF pc # 0 THEN 1 ELSE 0)
           /\ UNCHANGED <<session, pc, data_channel, audio_player_task, conns,
                          tasks, dphase>>]_vars
C5_Witness ==
    /\ calls.closedBefore
    /\ dphase = "done"
    /\ calls.disconnect = 2
    /\ calls.dc_close = 2
    /\ calls.cancel = 2
    /\ audio_player_task > 0
    /\ tasks[audio_player_task].state = "cancelled"

\* C6: when disconnect() has closed the data channel and is closing the peer
\* connection, no playback loop started by on_track is still running.
C6_NoLoopRunsAtClose ==
    dphase = "pc_close" => \A t \in DOMAIN tasks : TaskDone(t)

\* C7: with no explicit device and every candidate of the fallback list
\* failing, connect() has failed with the could-not-open-microphone error and
\* has made no offer, has not reached the ICE test of line 173 (no local
\* description was set on its peer connection) and made no exchange.
C7_NoMicrophoneStopsConnect ==
    (~Truthy(audio_device) /\ run.status = 200
        /\ Len(run.attempts) = Len(audio_formats) /\ ~run.added)
    => /\ cphase = "raised"
       /\ cerror = [kind |-> "NoMicrophone"]
       /\ run.offers = 0
       /\ run.exchanges = 0
       /\ ~conns[pc].local
C7_Witness ==
    /\ audio_device = PyNone
    /\ Len(run.attempts) = Len(audio_formats)
    /\ ~run.added
    /\ cphase = "raised"
    /\ cerror.kind = "NoMicrophone"

\* C8: connect() posts the description exchange only when the gathering state
\* is 'complete', whether it finds it so on return of setLocalDescription()
\* or after sleeping; when it is not complete on that return connect() goes
\* to wait, and while it waits with gathering not complete it neither posts
\* the exchange nor applies a remote description nor returns: its only way
\* out of the wait is cancellation.
C8_ExchangeGatedOnIce ==
    [][/\ run'.exchanges > run.exchanges => conns[pc].ice = "complete"
       /\ (cphase = "set_local" /\ conns[pc].ice # "complete")
            => /\ cphase' \in {"set_local", "ice_wait", "cancelled"}
               /\ run'.exchanges = run.exchanges
       /\ (cphase = "ice_wait" /\ conns[pc].ice # "complete")
            => /\ cphase' \in {"ice_wait", "cancelled"}
               /\ run'.exchanges = run.exchanges
               /\ ~conns'[pc].remote]_vars
C8_Witness ==
    /\ calls.connect = 2
    /\ Len(conns) = 2
    /\ conns[1].remote
    /\ pc = 2
    /\ cphase = "ice_wait"
    /\ conns[pc].ice = "gathering"

\* C9: an event whose type is none of the dispatched ones (a missing type and
\* an output-item-done event whose item is not a function call included) has
\* no effect: no callback, no write, no error.
IsUndispatched(text) ==
    /\ IsEvent(text)
    /\ EventType(text) \notin DispatchedTranscriptTypes
    /\ ~IsFunctionCallEvent(text)
C9_UndispatchedIgnored ==
    \A i \in DOMAIN last :
        IsUndispatched(last[i].text) => last[i].effect = NoEffect

\* C10: a message that is not a JSON object (not JSON at all, or a JSON
\* array, number, string or null) is dropped: no error leaves on_message, no
\* callback runs and nothing is written.
C10_MalformedDropped ==
    \A i \in DOMAIN last :
        ~IsEvent(last[i].text) => last[i].effect = NoEffect

\* The mapping the claim expects the router to hand on for an 'arguments'
\* field: the encoded mapping when the field is a string holding a JSON
\* object, the empty mapping otherwise
ItemArguments(text) == Get(EventItem(text), "arguments", Enc(EmptyDict))
EncodesMapping(x) ==
    /\ x.t = "str"
    /\ x.s.txt = "json"
    /\ x.s.val.t = "obj"
ExpectedArgs(text) ==
    IF EncodesMapping(ItemArguments(text)) THEN ItemArguments(text).s.val
    ELSE EmptyDict
ItemCallId(text) == Get(EventItem(text), "call_id", Lit(""))

\* C11: for every function-call event, whatever its 'arguments' field holds,
\* no error leaves the router, a local function is run on the expected
\* mapping (the writes are those of its result on that mapping) and the
\* external callback receives the expected mapping: the encoded mapping, or
\* the empty mapping when the field does not parse as one.
C11_ArgumentsAlwaysMapping ==
    \A i \in DOMAIN last :
        IsFunctionCallEvent(last[i].text)
        => /\ last[i].effect.exc = "none"
           /\ \A k \in DOMAIN last[i].effect.calls :
                last[i].effect.calls[k].args = ExpectedArgs(last[i].text)
           /\ HasLocalName(last[i].text)
                => last[i].effect.sent =
                     send_function_result(last[i].ready, ItemCallId(last[i].text),
                        _handle_local_function(ItemName(last[i].text),
                                               ExpectedArgs(last[i].text)).result)

\* C12: a run of the router writes on the data channel only when
\* self.data_channel exists and its readyState is 'open'; in any other state
\* the run writes nothing, and no run changes the client's attributes, its
\* connections or its tasks.
C12_WritesOnlyWhenOpen ==
    [][Len(last') > Len(last)
        => LET r == last'[Len(last')] IN
           /\ r.ready = ReadyState
           /\ r.effect.sent # << >> => (data_channel # 0 /\ conns[data_channel].dc = "open")
           /\ ReadyState # "open" => r.effect.sent = << >>
           /\ UNCHANGED <<session, pc, data_channel, audio_player_task, conns,
                          tasks, cphase, cerror, dphase>>]_vars
C12_Witness ==
    /\ Len(last) = 1
    /\ IsFunctionCallEvent(last[1].text)
    /\ ItemName(last[1].text) = Lit("stop_audio")
    /\ last[1].ready = "connecting"
    /\ last[1].effect = NoEffect
    /\ data_channel = 2
    /\ conns[1].dc = "open"

\* The peer connections and data channels of this client that are not closed
LivePeers == {c \in DOMAIN conns : conns[c].pc # "closed"}
ActiveChannels == {c \in DOMAIN conns : conns[c].dc # "closed"}

\* C13: whatever connect() and disconnect() calls were made, at most one
\* peer connection and at most one data channel that is not closed exist,
\* and self.session, once set, is never replaced.
C13_AtMostOneOfEach ==
    /\ [](Cardinality(LivePeers) <= 1 /\ Cardinality(ActiveChannels) <= 1)
    /\ [][session # 0 => session' = session]_vars

\* The format the claim assigns to an explicit specifier, read off its text
ClaimedFormat(device) ==
    IF device.chars[1] = ":" THEN "avfoundation"
    ELSE IF Len(device.chars) >= 6
            /\ <<device.chars[1], device.chars[2], device.chars[3],
                 device.chars[4], device.chars[5], device.chars[6]>>
               = <<"a", "u", "d", "i", "o", "=">>
    THEN "dshow"
    ELSE "pulse"
\* connect() has just left the device block of lines 102-154
AfterDeviceBlock ==
    \/ cphase = "create_offer"
    \/ cphase = "raised" /\ cerror.kind \in {"DeviceFailed", "NoMicrophone"}

\* C14: with an explicit (non-empty) device specifier, the device block of
\* connect() makes exactly one open attempt, on that specifier with the
\* format its syntax gives, and nothing else, whether it succeeds or fails.
C14_ExplicitDeviceOneAttempt ==
    (Truthy(audio_device) /\ AfterDeviceBlock)
    => run.attempts = << [device |-> audio_device,
                          fmt |-> ClaimedFormat(audio_device)] >>
C14_Witness ==
    /\ audio_device = PyStr(<<"a", "u", "d", "i", "o", "=", "M", "i", "c">>)
    /\ cphase = "raised"
    /\ cerror.kind = "NoMicrophone"
    /\ run.attempts = << [device |-> audio_device, fmt |-> "dshow"] >>
    /\ ~run.added

\* C15: for every frame of shape (channels, samples) the loop has played,
\* whatever its channel count, the buffer written to the sink is channel 0 of
\* the frame, sample for sample (stated for int16 frames, which the loop
\* writes without converting the samples).
C15_WritesChannelZero ==
    \A t \in DOMAIN tasks :
        (tasks[t].step.kind = "plays" /\ tasks[t].step.frame.nd = 2
            /\ tasks[t].step.frame.dtype = "int16")
        => /\ tasks[t].written.nd = 1
           /\ tasks[t].written.samples = tasks[t].step.frame.rows[1]

\* The errors of the stream-ended class: MediaStreamError, ConnectionError
\* and the subclasses of ConnectionError (ConnectionResetError is one)
StreamEndedClass == {MediaStreamError, ConnectionError, ConnectionResetError}
Raised(t) == tasks[t].step.kind \in {"recv_raises", "to_ndarray_raises", "write_raises"}

\* C18: after an iteration of the playback loop that raised, the loop has
\* ended normally (sink stopped and closed) when the error is of the
\* stream-ended class, and otherwise it is still running and awaits the next
\* frame; the task has not failed in either case.
C18_PerFrameErrors ==
    \A t \in DOMAIN tasks :
        Raised(t)
        => IF tasks[t].step.error \in StreamEndedClass
           THEN tasks[t].state = "finished" /\ tasks[t].sink = "closed"
           ELSE tasks[t].state = "waiting" /\ tasks[t].sink = "open"

\* C20: a playback loop that has terminated, in whichever way, has left no
\* sink open: the sink it opened was stopped and closed.
C20_SinkClosedAtTermination ==
    \A t \in DOMAIN tasks : TaskDone(t) => tasks[t].sink # "open"

\* C17: when the one attempt on an explicit device has yielded no audio
\* track (the open raised, or the player has no audio), connect() has failed
\* with an error that names the requested device.
C17_ExplicitFailureNamesDevice ==
    (Truthy(audio_device) /\ AfterDeviceBlock /\ ~run.added)
    => /\ cphase = "raised"
       /\ "device" \in DOMAIN cerror
       /\ cerror.device = audio_device

\* The error the claim expects for a failed signaling call
SignalingFailure(kind, status) ==
    {[kind |-> kind, status |-> r.status, body |-> r.body] :
        r \in {x \in Responses : x.status = status}}

\* C19: session creation succeeds on 200 only (201 fails it), the
\* description exchange succeeds on 200 and on 201; a status outside the
\* call's success set makes connect() read the body and fail with that
\* status and body (it ends otherwise only if it is cancelled from outside
\* while it reads); and a connect() issues each call at most once: it posts
\* one exchange at most, and once it has failed it takes no further step.
C19_SuccessSetsAndNoRetry ==
    /\ [](/\ run.status \notin {0, 200}
                => /\ cphase \in {"session_body", "raised", "cancelled"}
                   /\ cphase = "raised"
                        => cerror \in SignalingFailure("SessionFailed", run.status)
          /\ run.status = 200 => cerror.kind # "SessionFailed"
          /\ run.sdpStatus \notin {0, 200, 201}
                => /\ cphase \in {"sdp_body", "raised", "cancelled"}
                   /\ cphase = "raised"
                        => cerror \in SignalingFailure("SdpFailed", run.sdpStatus)
          /\ run.sdpStatus \in {200, 201}
                => /\ cphase \in {"sdp_body", "set_remote", "returned", "cancelled"}
                   /\ cerror.kind # "SdpFailed"
          /\ run.exchanges <= 1)
    /\ [][cphase = "raised"
            => (cphase' = "raised" /\ run' = run) \/ calls'.connect = calls.connect + 1]_vars
C19_Witness ==
    /\ run.status = 200
    /\ run.sdpStatus = 201
    /\ cphase = "returned"
    /\ cerror = NoError
    /\ run.exchanges = 1

\* connect() has failed: it raised, or it was interrupted
ConnectFailed == cphase \in {"raised", "cancelled"}

\* C16: in main(), every failure of connect() is taken by an except clause
\* and is followed by the call of disconnect(): while the call is not made
\* it is the step main() takes next; and that disconnect() does not raise
\* and is never stuck on the task it awaits.
C16_FailureCaughtThenDisconnect ==
    /\ ConnectFailed => ExceptClause(cerror.kind) # "none"
    /\ (ConnectFailed /\ calls.disconnect = 0) => ENABLED MainFinally
    /\ dphase # "raised"
    /\ dphase = "await_task"
         => \/ TaskDone(audio_player_task)
            \/ ENABLED PlaybackCancelled(audio_player_task)
====
